---- MODULE Spec2Model ----
(***************************************************************************)
(* The back-end service of src/node/index.js: an Express server with one   *)
(* node-postgres Client shared by all handlers, and the users table of the *)
(* Postgres store behind it.                                               *)
(*                                                                         *)
(* Text is modelled as a sequence of symbols.  A symbol is one character,  *)
(* except for a few fixed phrases that are kept as one symbol each:        *)
(*   "INSERT("  INSERT INTO users(name, email, age) VALUES (               *)
(*   "DROP"     DROP TABLE users                                           *)
(*   "ALTER"    ALTER TABLE users DROP CONSTRAINT users_name_key           *)
(*   "--"       the two dashes that start an SQL comment                   *)
(*   ","        a comma (the blank after it in the template is dropped)    *)
(* A phrase inside a string literal is data like any other character.      *)
(***************************************************************************)
EXTENDS Integers, Sequences, FiniteSets, TLC

\* F applied to the value of e, with e worked out once.
Bind(e, F(_)) == CHOOSE r \in {F(x) : x \in {e}} : TRUE

Letters == {"a", "b", "x", "u", "n", "d", "e", "f", "i"}
Digits  == {"0", "1", "2", "3", "4", "5", "6", "7", "8", "9"}
Quote   == "'"

DigitVal(c) ==
  CASE c = "0" -> 0 [] c = "1" -> 1 [] c = "2" -> 2 [] c = "3" -> 3
    [] c = "4" -> 4 [] c = "5" -> 5 [] c = "6" -> 6 [] c = "7" -> 7
    [] c = "8" -> 8 [] c = "9" -> 9

RECURSIVE Pow10(_)
Pow10(k) == IF k = 0 THEN 1 ELSE 10 * Pow10(k - 1)

RECURSIVE DigitsVal(_)
DigitsVal(s) ==
  IF s = <<>> THEN 0
  ELSE 10 * DigitsVal(SubSeq(s, 1, Len(s) - 1)) + DigitVal(s[Len(s)])

AllIn(s, S) == \A i \in 1..Len(s) : s[i] \in S

(***************************************************************************)
(* JavaScript: the value of a body field the request does not carry, and   *)
(* what a template literal makes of a field (index.js:51).                 *)
(***************************************************************************)
Undefined == <<"#undefined">>

TemplateText(v) ==
  IF v = Undefined THEN <<"u", "n", "d", "e", "f", "i", "n", "e", "d">> ELSE v

\* The statement text of the create-user handler, index.js:51.
InsertText(name, email, age) ==
  <<"INSERT(", Quote>> \o TemplateText(name) \o <<Quote, ",", Quote>>
     \o TemplateText(email) \o <<Quote, ",">> \o TemplateText(age) \o <<")", ";">>

(***************************************************************************)
(* The store's lexer.  A string literal runs from a quote to the next      *)
(* quote that is not doubled; a doubled quote is one quote of data.        *)
(***************************************************************************)
RECURSIVE ScanStr(_, _, _)
ScanStr(t, i, acc) ==
  IF i > Len(t) THEN [ok |-> FALSE, v |-> acc, next |-> i]
  ELSE IF t[i] = Quote
       THEN IF i + 1 <= Len(t) /\ t[i + 1] = Quote
            THEN ScanStr(t, i + 2, Append(acc, Quote))
            ELSE [ok |-> TRUE, v |-> acc, next |-> i + 1]
       ELSE ScanStr(t, i + 1, Append(acc, t[i]))

RECURSIVE ScanRun(_, _, _)
\* The end of the longest run of symbols of S starting at i.
ScanRun(t, i, S) ==
  IF i <= Len(t) /\ t[i] \in S THEN ScanRun(t, i + 1, S) ELSE i

\* The end of a numeric literal starting at i: digits, then maybe . digits
ScanNum(t, i) ==
  Bind(ScanRun(t, i, Digits), LAMBDA j :
    IF j + 1 <= Len(t) /\ t[j] = "." /\ t[j + 1] \in Digits
    THEN ScanRun(t, j + 1, Digits)
    ELSE j)

RECURSIVE Lex(_, _, _)
Lex(t, i, acc) ==
  IF i > Len(t) THEN [ok |-> TRUE, toks |-> acc]
  ELSE IF t[i] = "--" THEN [ok |-> TRUE, toks |-> acc]
  ELSE IF t[i] = Quote
       THEN Bind(ScanStr(t, i + 1, <<>>), LAMBDA s :
              IF s.ok
              THEN Lex(t, s.next, Append(acc, [k |-> "str", v |-> s.v]))
              ELSE [ok |-> FALSE, toks |-> acc])
  ELSE IF t[i] \in Digits
       THEN Bind(ScanNum(t, i), LAMBDA j :
              Lex(t, j, Append(acc, [k |-> "num", v |-> SubSeq(t, i, j - 1)])))
  ELSE IF t[i] \in Letters
       THEN Bind(ScanRun(t, i, Letters \cup Digits), LAMBDA j :
              Lex(t, j, Append(acc, [k |-> "id", v |-> SubSeq(t, i, j - 1)])))
  ELSE Lex(t, i + 1, Append(acc, [k |-> "sym", v |-> <<t[i]>>]))

Sym(c) == [k |-> "sym", v |-> <<c>>]

RECURSIVE SplitOn(_, _, _, _)
\* toks cut at every token sep: the sequence of the pieces, empty ones too.
SplitOn(toks, sep, cur, acc) ==
  IF toks = <<>> THEN Append(acc, cur)
  ELSE IF toks[1] = sep
       THEN SplitOn(Tail(toks), sep, <<>>, Append(acc, cur))
       ELSE SplitOn(Tail(toks), sep, Append(cur, toks[1]), acc)

(***************************************************************************)
(* Numbers: n / 10^d, never negative (the model's text has no minus sign). *)
(***************************************************************************)
RECURSIVE DotPos(_, _)
DotPos(v, i) == IF i > Len(v) THEN 0 ELSE IF v[i] = "." THEN i ELSE DotPos(v, i + 1)

NumVal(v) ==
  Bind(DotPos(v, 1), LAMBDA p :
    IF p = 0 THEN [n |-> DigitsVal(v), d |-> 0]
    ELSE [n |-> DigitsVal(SubSeq(v, 1, p - 1) \o SubSeq(v, p + 1, Len(v))),
          d |-> Len(v) - p])

NumAdd(x, y) ==
  LET d == IF x.d >= y.d THEN x.d ELSE y.d
  IN  [n |-> x.n * Pow10(d - x.d) + y.n * Pow10(d - y.d), d |-> d]

\* numeric to integer, as the store's assignment cast: half rounds away from 0
RoundToInt(x) == (2 * x.n + Pow10(x.d)) \div (2 * Pow10(x.d))

DigitChar(k) ==
  CASE k = 0 -> "0" [] k = 1 -> "1" [] k = 2 -> "2" [] k = 3 -> "3"
    [] k = 4 -> "4" [] k = 5 -> "5" [] k = 6 -> "6" [] k = 7 -> "7"
    [] k = 8 -> "8" [] k = 9 -> "9"

RECURSIVE IntToText(_)
IntToText(n) ==
  IF n < 10 THEN <<DigitChar(n)>>
  ELSE Append(IntToText(n \div 10), DigitChar(n % 10))

RECURSIVE FracText(_, _)
FracText(n, d) ==
  IF d = 0 THEN <<>> ELSE Append(FracText(n \div 10, d - 1), DigitChar(n % 10))

NumToText(x) ==
  IF x.d = 0 THEN IntToText(x.n)
  ELSE IntToText(x.n \div Pow10(x.d)) \o <<".">> \o FracText(x.n % Pow10(x.d), x.d)

(***************************************************************************)
(* The users table, index.js:18-20.                                        *)
(***************************************************************************)
VarcharLen == 255
IntMax     == 2147483647

IsOperand(tok) == tok.k \in {"str", "num", "id"}

\* An expression of the grammar modelled: a term, or term + term.
IsExpr(toks) ==
  \/ Len(toks) = 1 /\ IsOperand(toks[1])
  \/ Len(toks) = 3 /\ IsOperand(toks[1]) /\ toks[2] = Sym("+") /\ IsOperand(toks[3])

\* The number an operand of + stands for.  A quoted literal is read as an
\* integer; a bare word names a column, and users has no such column.
Operand(tok) ==
  IF tok.k = "num" THEN [ok |-> TRUE, x |-> NumVal(tok.v)]
  ELSE IF tok.k = "str" /\ tok.v # <<>> /\ AllIn(tok.v, Digits)
       THEN [ok |-> TRUE, x |-> [n |-> DigitsVal(tok.v), d |-> 0]]
       ELSE [ok |-> FALSE, x |-> [n |-> 0, d |-> 0]]

NumExpr(e) ==
  IF Len(e) = 1 THEN Operand(e[1])
  ELSE Bind(<<Operand(e[1]), Operand(e[3])>>, LAMBDA o :
         IF o[1].ok /\ o[2].ok THEN [ok |-> TRUE, x |-> NumAdd(o[1].x, o[2].x)]
         ELSE [ok |-> FALSE, x |-> [n |-> 0, d |-> 0]])

\* The value an expression gives a VARCHAR(255) column.
TextValue(e) ==
  Bind(IF Len(e) = 1 /\ e[1].k = "str" THEN [ok |-> TRUE, v |-> e[1].v]
       ELSE IF Len(e) = 1 /\ e[1].k = "num" THEN [ok |-> TRUE, v |-> e[1].v]
       ELSE Bind(NumExpr(e), LAMBDA x :
              IF x.ok THEN [ok |-> TRUE, v |-> NumToText(x.x)]
              ELSE [ok |-> FALSE, v |-> <<>>]),
       LAMBDA r :
         IF r.ok /\ Len(r.v) <= VarcharLen THEN r ELSE [ok |-> FALSE, v |-> <<>>])

\* The value an expression gives the INT column age.
IntValue(e) ==
  Bind(NumExpr(e), LAMBDA x :
    IF x.ok /\ RoundToInt(x.x) <= IntMax
    THEN [ok |-> TRUE, v |-> RoundToInt(x.x)]
    ELSE [ok |-> FALSE, v |-> 0])

(***************************************************************************)
(* Statements.  The store parses the whole text of a simple query first (a *)
(* syntax error anywhere and nothing runs), then runs its statements in    *)
(* order as one transaction: an error in any of them undoes them all.      *)
(***************************************************************************)
NoStmt == [ok |-> FALSE, op |-> "error", e |-> <<>>]

ParseStmt(toks) ==
  IF toks = <<>> THEN [ok |-> TRUE, op |-> "empty", e |-> <<>>]
  ELSE IF toks = <<Sym("DROP")>> THEN [ok |-> TRUE, op |-> "drop", e |-> <<>>]
  ELSE IF toks = <<Sym("ALTER")>> THEN [ok |-> TRUE, op |-> "alter", e |-> <<>>]
  ELSE IF Len(toks) >= 2 /\ toks[1] = Sym("INSERT(") /\ toks[Len(toks)] = Sym(")")
       THEN Bind(SplitOn(SubSeq(toks, 2, Len(toks) - 1), Sym(","), <<>>, <<>>),
                 LAMBDA g :
                   IF Len(g) = 3 /\ \A i \in 1..3 : IsExpr(g[i])
                   THEN [ok |-> TRUE, op |-> "insert", e |-> g]
                   ELSE NoStmt)
  ELSE NoStmt

\* The statements of a list of tokens cut at the semicolons.
ParseAll(toks) ==
  Bind(SplitOn(toks, Sym(";"), <<>>, <<>>), LAMBDA p :
    Bind([i \in 1..Len(p) |-> ParseStmt(p[i])], LAMBDA s :
      IF \A i \in 1..Len(s) : s[i].ok
      THEN [ok |-> TRUE, stmts |-> s]
      ELSE [ok |-> FALSE, stmts |-> <<>>]))

Parse(text) ==
  Bind(text, LAMBDA t :
    Bind(Lex(t, 1, <<>>), LAMBDA l :
      IF l.ok THEN ParseAll(l.toks) ELSE [ok |-> FALSE, stmts |-> <<>>]))

(***************************************************************************)
(* The store.  exists: the users table is there; rows: its rows in heap    *)
(* order; seq: the last value users_id_seq gave out (id serial); uniq: the *)
(* UNIQUE constraint on name is in place.                                  *)
(***************************************************************************)
NoTable == [exists |-> FALSE, rows |-> <<>>, seq |-> 0, uniq |-> TRUE]

NewTable == [exists |-> TRUE, rows |-> <<>>, seq |-> 0, uniq |-> TRUE]

\* A faulty variant of ExecCreateTable: the table is made anew each time.
ExecCreateTableAnew(d) == NewTable

\* CREATE TABLE IF NOT EXISTS users (...), index.js:18-20
ExecCreateTable(d) == IF d.exists THEN d ELSE NewTable

NameTaken(d, name)   == \E i \in 1..Len(d.rows) : d.rows[i].name = name
EmailTaken(d, email) == \E i \in 1..Len(d.rows) : d.rows[i].email = email

\* The UNIQUE constraints of index.js:19-20 let the row in.
UniqueOk(d, name, email) ==
  /\ d.uniq => ~NameTaken(d, name)
  /\ ~EmailTaken(d, email)

\* One INSERT.  The values are checked when the statement is analysed;
\* the id is drawn from the sequence before the constraints are checked,
\* and a value drawn is never given back.
ExecInsert(d, e) ==
  Bind([name |-> TextValue(e[1]), email |-> TextValue(e[2]), age |-> IntValue(e[3]),
        id |-> d.seq + 1],
       LAMBDA c :
         IF ~d.exists \/ ~c.name.ok \/ ~c.email.ok \/ ~c.age.ok
         THEN [ok |-> FALSE, db |-> d]
         ELSE IF ~UniqueOk(d, c.name.v, c.email.v)
              THEN [ok |-> FALSE, db |-> [d EXCEPT !.seq = c.id]]
              ELSE [ok |-> TRUE,
                    db |-> [d EXCEPT !.seq = c.id,
                                     !.rows = Append(@, [id |-> c.id, name |-> c.name.v,
                                                         email |-> c.email.v,
                                                         age |-> c.age.v])]])

ExecStmt(d, st) ==
  CASE st.op = "empty"  -> [ok |-> TRUE, db |-> d]
    [] st.op = "drop"   -> IF d.exists THEN [ok |-> TRUE, db |-> NoTable]
                           ELSE [ok |-> FALSE, db |-> d]
    [] st.op = "alter"  -> IF d.exists /\ d.uniq
                           THEN [ok |-> TRUE, db |-> [d EXCEPT !.uniq = FALSE]]
                           ELSE [ok |-> FALSE, db |-> d]
    [] st.op = "insert" -> ExecInsert(d, st.e)

RECURSIVE RunAll(_, _, _, _)
\* d0: the store before the query; cur: after the statements run so far;
\* hi: the value of the sequence d0 had, after the draws made so far.
RunAll(d0, cur, hi, stmts) ==
  IF stmts = <<>> THEN [ok |-> TRUE, db |-> cur]
  ELSE Bind(ExecStmt(cur, stmts[1]), LAMBDA r :
         Bind(IF r.db.exists THEN r.db.seq ELSE hi, LAMBDA h2 :
           IF r.ok THEN RunAll(d0, r.db, h2, Tail(stmts))
           ELSE [ok |-> FALSE, db |-> [d0 EXCEPT !.seq = h2]]))

\* client.query(text) with no parameters: the simple query protocol.
Query(d, text) ==
  Bind(Parse(text), LAMBDA p :
    IF p.ok THEN RunAll(d, d, d.seq, p.stmts) ELSE [ok |-> FALSE, db |-> d])

\* SELECT * FROM users, index.js:33
Select(d) == IF d.exists THEN [ok |-> TRUE, rows |-> d.rows]
             ELSE [ok |-> FALSE, rows |-> <<>>]

(***************************************************************************)
(* The service process.                                                    *)
(***************************************************************************)
MaxQueue == 2   \* queries waiting on the client at once
MaxRows  == 2   \* rows, with the create-user requests waiting to add one

\* The create-user requests in the queue.
Creates(q) == Cardinality({i \in 1..Len(q) : q[i].kind = "insert"})

\* What the fields of the model's requests hold.
PlainNames == { <<"a">>, <<"b">> }

\* O'Brien, and the spec's x', '', 0); DROP TABLE users; -- and its like
QuoteNames ==
  { <<"a", "'", "b">>,
    <<"x", "'", ",", "'", "'", ",", "0", ")", ";", "DROP", ";", "--">>,
    <<"a", "'", ",", "'", "'", ",", "0", ")", ";", "ALTER", ";", "--">> }

\* text, empty, missing, a fraction, an expression
OddAges == { <<"a">>, <<>>, Undefined, <<"1", ".", "5">>, <<"1", "+", "1">> }

Bodies ==
  [name : {<<"a">>}, email : PlainNames, age : {<<"1">>}]
    \cup [name : QuoteNames, email : {<<"b">>}, age : {<<"1">>}]
    \cup [name : {<<"b">>}, email : {<<"b">>}, age : OddAges]

NoBody == [name |-> <<>>, email |-> <<>>, age |-> <<>>]

VARIABLES
  db,      \* the store: the users table, its sequence, its constraint
  proc,    \* the node process: "running" or "crashed"
  conn,    \* the client's connection: "connecting", "connected", "closed"
  queue,   \* the client's query queue: the queries not yet run, in order
  last,    \* what the client that made the latest request saw
  ids      \* history: every id a row of users was ever stored with

vars == <<db, proc, conn, queue, last, ids>>

RowSet(d) == {d.rows[i] : i \in 1..Len(d.rows)}

\* The rows d2 holds that d did not.
Added(d, d2) == RowSet(d2) \ RowSet(d)

CreateTableQuery == [kind |-> "createTable", body |-> NoBody]

SelectQuery == [kind |-> "select", body |-> NoBody]

InsertQuery(body) == [kind |-> "insert", body |-> body]

\* The text POST /api/form hands to client.query, index.js:47-51
BodyText(body) == InsertText(body.name, body.email, body.age)

\* What a client saw of its request.  status 0: no response (nothing
\* listens on the port); out: the body a create-user request got back;
\* rows: the rows a list-users request got; text: the greeting, or which
\* error the 500 carries.
Seen(op, status, out, rows, text) ==
  [op |-> op, status |-> status, out |-> out, rows |-> rows, text |-> text]

Refused(op) == Seen(op, 0, NoBody, <<>>, "")

\* A faulty variant of ListResponse: 200 only when there are rows.
ListResponseNoEmpty(r) ==
  Seen("list", IF r.ok /\ r.rows # <<>> THEN 200 ELSE 500, NoBody, r.rows,
       IF r.ok /\ r.rows # <<>> THEN "" ELSE "error")

\* The rest of GET /api/all once the query has settled, index.js:35-42:
\* 200 with the rows, or the catch branch's 500.
ListResponse(r) ==
  Seen("list", IF r.ok THEN 200 ELSE 500, NoBody, r.rows,
       IF r.ok THEN "" ELSE "error")

\* A faulty variant of CreateResponse: 200 whatever the query did.
CreateResponseAlwaysOk(body, r) == Seen("create", 200, body, <<>>, "")

\* The rest of POST /api/form once the query has settled, index.js:53-59:
\* 200 with the request body sent back, or the catch branch's 500.
CreateResponse(body, r) ==
  Seen("create", IF r.ok THEN 200 ELSE 500, IF r.ok THEN body ELSE NoBody, <<>>,
       IF r.ok THEN "" ELSE "error")

\* The module body, index.js:7-62, run to its end: connect() has been
\* called, createTable() has queued its statement, the server listens.
Boot ==
  /\ proc' = "running"
  /\ conn' = "connecting"
  /\ queue' = <<CreateTableQuery>>

Init ==
  /\ db = NoTable
  /\ proc = "running"
  /\ conn = "connecting"
  /\ queue = <<CreateTableQuery>>
  /\ last = Seen("none", 0, NoBody, <<>>, "")
  /\ ids = {}

\* An error nobody handles ends the process: a rejected promise with no
\* catch (connect(), createTable()), an 'error' event with no listener.
Crash ==
  /\ proc' = "crashed"
  /\ conn' = "closed"
  /\ queue' = <<>>

\* client.connect() succeeds, index.js:15
ConnectOk ==
  /\ proc = "running" /\ conn = "connecting"
  /\ conn' = "connected"
  /\ UNCHANGED <<db, proc, queue, last, ids>>

\* client.connect() fails: the store cannot be reached, index.js:15
ConnectFail ==
  /\ proc = "running" /\ conn = "connecting"
  /\ Crash
  /\ UNCHANGED <<db, last, ids>>

\* The connection is lost after it was made, index.js:7-15
ConnLost ==
  /\ proc = "running" /\ conn = "connected"
  /\ Crash
  /\ UNCHANGED <<db, last, ids>>

\* GET /api, index.js:29
HealthCheck ==
  /\ last' = IF proc = "running"
             THEN Seen("health", 200, NoBody, <<>>, "Hello World!")
             ELSE Refused("health")
  /\ UNCHANGED <<db, proc, conn, queue, ids>>

\* GET /api/all up to its await, index.js:31-33
ListRequest ==
  /\ proc = "running" /\ Len(queue) < MaxQueue
  /\ queue' = Append(queue, SelectQuery)
  /\ UNCHANGED <<db, proc, conn, last, ids>>

\* POST /api/form up to its await, index.js:45-51
CreateRequest(body) ==
  /\ proc = "running" /\ Len(queue) < MaxQueue
  /\ Len(db.rows) + Creates(queue) < MaxRows /\ db.seq <= MaxRows
  /\ queue' = Append(queue, InsertQuery(body))
  /\ UNCHANGED <<db, proc, conn, last, ids>>

\* A request made while no process listens.
RequestRefused ==
  /\ proc = "crashed"
  /\ \E op \in {"list", "create"} : last' = Refused(op)
  /\ UNCHANGED <<db, proc, conn, queue, ids>>

\* The store runs the first query of the queue and the code waiting for
\* it goes on: createTable (index.js:17-21), the rest of GET /api/all
\* (index.js:35-42), the rest of POST /api/form (index.js:53-59).
StoreExec ==
  /\ proc = "running" /\ conn = "connected" /\ queue # <<>>
  /\ LET q == Head(queue)
     IN  CASE q.kind = "createTable" ->
                /\ db' = ExecCreateTable(db)
                /\ queue' = Tail(queue)
                /\ UNCHANGED <<proc, conn, last, ids>>
           [] q.kind = "select" ->
                \E r \in {Select(db)} :
                    /\ last' = ListResponse(r)
                    /\ queue' = Tail(queue)
                    /\ UNCHANGED <<db, proc, conn, ids>>
           [] q.kind = "insert" ->
                \E r \in {Query(db, BodyText(q.body))} :
                    /\ db' = r.db
                    /\ last' = CreateResponse(q.body, r)
                    /\ ids' = ids \cup {w.id : w \in Added(db, r.db)}
                    /\ queue' = Tail(queue)
                    /\ UNCHANGED <<proc, conn>>

\* The store answers the first query with an error of its own (disk full,
\* no privilege, timeout) and changes nothing.
StoreFault ==
  /\ proc = "running" /\ conn = "connected" /\ queue # <<>>
  /\ LET q == Head(queue)
     IN  IF q.kind = "createTable"
         THEN Crash /\ UNCHANGED <<db, last, ids>>
         ELSE /\ last' = Seen(IF q.kind = "select" THEN "list" ELSE "create", 500,
                              NoBody, <<>>, "fault")
              /\ queue' = Tail(queue)
              /\ UNCHANGED <<db, proc, conn, ids>>

\* The process is started again; the store keeps its data.
Restart ==
  /\ Boot
  /\ UNCHANGED <<db, last, ids>>

Next ==
  \/ ConnectOk
  \/ ConnectFail
  \/ ConnLost
  \/ HealthCheck
  \/ ListRequest
  \/ \E body \in Bodies : CreateRequest(body)
  \/ RequestRefused
  \/ StoreExec
  \/ StoreFault
  \/ Restart

Spec == Init /\ [][Next]_vars

(***************************************************************************)
(* What the properties below speak of.                                     *)
(***************************************************************************)
\* The step in which the store runs a create-user request's statement and
\* the handler answers; the same for list-users.
CreateDone == StoreExec /\ Head(queue).kind = "insert"
ListDone   == StoreExec /\ Head(queue).kind = "select"

\* The text of an integer: digits and nothing else.
IsIntegerText(age) == age # Undefined /\ age # <<>> /\ AllIn(age, Digits)

HasQuote(v) == \E i \in 1..Len(v) : v[i] = Quote

\* The table is there and holds neither the name nor the email.
Fresh(d, body) ==
  d.exists /\ ~NameTaken(d, body.name) /\ ~EmailTaken(d, body.email)

\* The places of rows that hold what body submitted.
Matching(rows, body) ==
  {i \in 1..Len(rows) : /\ rows[i].name = body.name
                        /\ rows[i].email = body.email
                        /\ rows[i].age = DigitsVal(body.age)}

\* C1: a create-user request with a name and an email the table does not
\* hold and an integer age is answered 200, and a list-users request made
\* next returns exactly one record with the submitted name, email and age.
C1_CreateThenList ==
  [][(CreateDone /\ Fresh(db, Head(queue).body)
                 /\ IsIntegerText(Head(queue).body.age))
       => /\ last'.status = 200
          /\ Select(db').ok
          /\ Cardinality(Matching(Select(db').rows, Head(queue).body)) = 1]_vars

\* C2: a name or email with a single quote or SQL metacharacters is data:
\* the request (otherwise valid) is answered 200 and its whole effect on
\* the store is one INSERT of one row that holds the values verbatim.
C2_QuoteIsData ==
  [][(CreateDone /\ Fresh(db, Head(queue).body)
                 /\ IsIntegerText(Head(queue).body.age)
                 /\ (HasQuote(Head(queue).body.name) \/ HasQuote(Head(queue).body.email)))
       => /\ last'.status = 200
          /\ db' = [db EXCEPT !.seq = @ + 1,
                              !.rows = Append(@, [id |-> db.seq + 1,
                                                  name |-> Head(queue).body.name,
                                                  email |-> Head(queue).body.email,
                                                  age |-> DigitsVal(Head(queue).body.age)])]]_vars

\* C3: a create-user request whose name or whose email an existing user
\* has is answered 5xx and leaves the table as it was.
C3_DuplicateRejected ==
  [][(CreateDone /\ db.exists
                 /\ (NameTaken(db, Head(queue).body.name)
                        \/ EmailTaken(db, Head(queue).body.email)))
       => /\ last'.status = 500
          /\ db'.exists /\ db'.rows = db.rows]_vars

\* C4: no error is fatal: the process runs in every reachable state.
C4_NoErrorIsFatal == proc = "running"

\* C5: the health check is answered 200 "Hello World!" whatever has
\* happened to the store.
C5_HealthAlwaysAnswers ==
  last.op = "health" => last.status = 200 /\ last.text = "Hello World!"

\* C6: in every reachable state every row has a name, an email and an
\* integer age, and no two rows share a name or share an email.
C6_RowsValidAndUnique ==
  /\ \A i \in 1..Len(db.rows) :
        /\ DOMAIN db.rows[i] = {"id", "name", "email", "age"}
        /\ db.rows[i].age \in Int
  /\ \A i, j \in 1..Len(db.rows) :
        i # j => /\ db.rows[i].name # db.rows[j].name
                 /\ db.rows[i].email # db.rows[j].email

\* C7: the table only grows: a step keeps every row as it is, and only a
\* create-user request adds one.
C7_OnlyGrows ==
  [][/\ \A i \in 1..Len(db.rows) : i <= Len(db'.rows) /\ db'.rows[i] = db.rows[i]
     /\ db'.rows # db.rows => CreateDone]_vars

\* C8: a create-user request whose age is not an integer is answered 5xx
\* and inserts no row.
C8_OddAgeRejected ==
  [][(CreateDone /\ ~IsIntegerText(Head(queue).body.age))
       => last'.status = 500 /\ db'.rows = db.rows]_vars

\* C9: ids are pairwise distinct, a row a step adds gets an id no row was
\* ever stored with, and the id of a row that stays does not change.
C9_IdsNeverReused ==
  [][/\ \A i, j \in 1..Len(db'.rows) : i # j => db'.rows[i].id # db'.rows[j].id
     /\ \A w \in Added(db, db') : w.id \notin ids
     /\ \A v \in RowSet(db), w \in RowSet(db') :
          (v.name = w.name /\ v.email = w.email) => v.id = w.id]_vars

\* C10: a list-users request whose query the store runs while the users
\* table exists is answered 200 with exactly the rows of the table, each
\* with id, name, email and age (none when the table is empty), and
\* leaves the store as it was.
C10_ListReturnsTable ==
  [][(ListDone /\ db.exists)
       => /\ last'.op = "list" /\ last'.status = 200
          /\ last'.rows = db.rows
          /\ \A i \in 1..Len(last'.rows) :
                DOMAIN last'.rows[i] = {"id", "name", "email", "age"}
          /\ db' = db]_vars

\* A list-users request was answered 200 with the one row the table holds.
C10_ListedRows ==
  /\ last.op = "list" /\ last.status = 200
  /\ Len(last.rows) = 1 /\ last.rows = db.rows

\* A list-users request on the empty table was answered 200 with no rows.
C10_ListedEmpty ==
  /\ last.op = "list" /\ last.status = 200
  /\ db.exists /\ db.rows = <<>> /\ last.rows = <<>>

\* The step in which the store runs createTable's statement.
CreateTableDone == StoreExec /\ Head(queue).kind = "createTable"

\* C11: schema initialization is idempotent: a start of the service
\* leaves the store alone, and its CREATE TABLE statement leaves a users
\* table that exists, and all its rows, as they are; only when the table
\* is absent is it created, empty.
C11_SchemaInitIdempotent ==
  [][/\ Restart => db' = db
     /\ CreateTableDone =>
          /\ db.exists => db' = db
          /\ ~db.exists => db' = NewTable
          /\ Select(db').ok
          /\ db.exists => Select(db').rows = Select(db).rows]_vars

\* The service was started again after a crash (the latest request got no
\* response, and the process runs), its CREATE TABLE has been run, and
\* the users table still holds a row stored before.
C11_RestartedWithRows ==
  /\ last.status = 0 /\ last.op # "none"
  /\ proc = "running" /\ conn = "connected"
  /\ \A i \in 1..Len(queue) : queue[i].kind # "createTable"
  /\ db.exists /\ db.rows # <<>>

\* C12: a create-user request is answered 200 only when the store ran its
\* statement without error, and the body of the 200 is the submitted
\* name, email and age, without the id the store gave the row.
C12_OkOnlyAfterInsert ==
  [][/\ CreateDone =>
          (last'.status = 200 =>
             /\ Query(db, BodyText(Head(queue).body)).ok
             /\ last'.op = "create"
             /\ last'.out = Head(queue).body
             /\ DOMAIN last'.out = {"name", "email", "age"})
     /\ (StoreFault /\ Head(queue).kind = "insert") => last'.status = 500]_vars

\* A create-user request was answered 200 with what it submitted, and the
\* table holds the row, with an id the response does not tell.
C12_EchoedWithoutId ==
  /\ last.op = "create" /\ last.status = 200
  /\ last.out = [name |-> <<"a">>, email |-> <<"b">>, age |-> <<"1">>]
  /\ \E i \in 1..Len(db.rows) :
        /\ db.rows[i].name = last.out.name /\ db.rows[i].email = last.out.email
        /\ db.rows[i].id >= 1

\* The request whose query is q is answered in this step.
Answered(q) ==
  /\ queue # <<>> /\ Head(queue) = q /\ queue' = Tail(queue)
  /\ last'.op = (IF q.kind = "select" THEN "list" ELSE "create")
  /\ last'.status \in {200, 500}

\* C13: every list-users or create-user request gets its one response,
\* 200 or 500, whatever happens to the store: unless somebody starts the
\* process anew, a step keeps the requests that wait, or takes the first
\* query off the queue and answers its request.
C13_EveryRequestAnswered ==
  [][~Restart =>
       \/ \A i \in 1..Len(queue) : queue[i].kind = "createTable"
       \/ Len(queue') >= Len(queue) /\ SubSeq(queue', 1, Len(queue)) = queue
       \/ /\ queue' = Tail(queue)
          /\ Head(queue).kind = "createTable" \/ Answered(Head(queue))]_vars

\* C14: the statements run in the order they were issued and createTable's
\* was issued first, so the store runs the query of a request only after
\* this process's CREATE TABLE statement, and with the users table there.
C14_QueryAfterSchema ==
  [][(ListDone \/ CreateDone) =>
       /\ \A i \in 1..Len(queue) : queue[i].kind # "createTable"
       /\ db.exists]_vars

====
